---- MODULE Spec2Model ----
(***************************************************************************)
(* Mi Heater integration: custom_components/miheater/__init__.py and       *)
(* custom_components/miheater/climate.py.                                  *)
(*                                                                         *)
(* One config entry for one heater.  The entry can be set up, unloaded and *)
(* set up again; every setup creates fresh objects (device handle,         *)
(* coordinator, debouncer, entity), numbered by a generation g.  Nothing   *)
(* resets the objects of an earlier generation: they keep what they hold   *)
(* and the work that still refers to them goes on (an executor job cannot  *)
(* be cancelled).                                                          *)
(*                                                                         *)
(* Every blocking device call (status / on / off / set_target_temperature) *)
(* runs in the executor and takes three steps: the call starts, the heater *)
(* is read or acts, the call returns.  A coroutine that awaits a refresh   *)
(* stays where it is until that refresh has completed.                     *)
(*                                                                         *)
(* The services of the host platform that the code calls                   *)
(* (DataUpdateCoordinator.async_request_refresh and its request debouncer, *)
(* async_config_entry_first_refresh, async_add_entities, entity polling,   *)
(* async_unload_platforms) are modelled at the place of the call.          *)
(*                                                                         *)
(* Two specifications share the actions.  Spec follows the entry through   *)
(* its setups up to one loaded lifetime, with the commands of the entity.  *)
(* SpecReload sets the entry up again after an unload, with the objects of *)
(* the unloaded generation still followed, and without commands.  In both  *)
(* the heater can also be switched by hand.                                *)
(***************************************************************************)
EXTENDS Integers, FiniteSets, Sequences, TLC

\* ------------------------------------------------------------------ bounds
MaxSetups == 2      \* number of times async_setup_entry is run
NumTasks  == 1      \* service calls (commands) that can be in progress at once
MaxDrops  == 2      \* refresh requests counted while one poll is in flight

\* --------------------------------------------------------------- constants
min_temp == 16
max_temp == 32

Gens  == 1 .. MaxSetups
Tasks == 1 .. NumTasks

\* Optional values: None is the empty sequence, a present value v is <<v>>.
None == << >>
Some(v) == << v >>

\* Values a caller can pass as ATTR_TEMPERATURE: one inside and one outside the
\* limits the entity declares (the code treats every value alike).
TempInputs == {min_temp, max_temp + 1}
\* HVAC modes a caller can pass; "cool" stands for every unsupported mode.
HvacInputs == {"heat", "off", "cool"}
\* How a blocking call to the device ends: normally, or with one of the
\* exceptions the device library raises for an unreachable device.
StatusOutcomes  == {"ok", "DeviceException", "OSError"}
CommandOutcomes == {"ok", "DeviceException"}

VARIABLES
    hass_data,  \* keys of hass.data[DOMAIN]
    entry,      \* the config entry's lifecycle
    device,     \* the physical heater
    fetches,    \* device.status calls in flight
    coord,      \* coord[g]: the MiHeaterDataUpdateCoordinator of generation g
    deb,        \* deb[g]: the request-refresh debouncer of coord[g]
    entity,     \* entity[g]: the MiHeaterClimate of generation g
    task,       \* task[t]: a service call on the entity
    obs         \* obs[g]: what the polls of generation g have observed (history)

vars == << hass_data, entry, device, fetches, coord, deb, entity, task, obs >>

EntryId == "entry_id"
\* The entry_id of another config entry of the same domain.
OtherEntryId == "other_entry_id"

\* The snapshot device.status returns.
Status(d) == [is_on |-> d.is_on, target_temperature |-> d.target_temperature]

\* A device.status call that has just been handed to the executor: the heater
\* has not been read yet.
Fetch(kind, g) == [kind |-> kind, gen |-> g, seen |-> None]

NoCoordinator ==
    [exists |-> FALSE, data |-> None, last_update_success |-> TRUE,
     last_exception |-> "none"]

\* DataUpdateCoordinator.__init__: no data yet, no listener, default debouncer.
NewCoordinator == [NoCoordinator EXCEPT !.exists = TRUE]

\* Debouncer(cooldown, immediate=True) as the coordinator creates it: locked
\* while its job (one refresh) runs, timer while the cooldown after a job runs.
IdleDebouncer == [locked |-> FALSE, timer |-> FALSE, execute_at_end |-> FALSE]

IdleTask ==
    [pc |-> "idle", kind |-> "none", arg |-> None, gen |-> 0, called |-> "none",
     sent |-> None, acted |-> FALSE, dev_result |-> "none", refreshes |-> 0]

\* History of generation g: the snapshot of its last successful fetch, how its
\* last steady-state poll ended, what a refresh request threw at its caller, and
\* how many refresh requests arrived during the poll in flight (or the last one).
NoObs == [last_good |-> None, last_poll |-> "none", escaped |-> "none", dropped |-> 0]

\* No setup of this entry has run yet; another entry of the domain may have
\* been set up already.
Init ==
    /\ hass_data \in {{}, {OtherEntryId}}
    /\ entry = [state |-> "new", gen |-> 0, probe |-> "none", result |-> "none",
                unload |-> "none", fetched |-> << >>]
    /\ device = [is_on |-> FALSE, target_temperature |-> min_temp]
    /\ fetches = {}
    /\ coord = [g \in Gens |-> NoCoordinator]
    /\ deb = [g \in Gens |-> IdleDebouncer]
    /\ entity = [g \in Gens |-> "none"]
    /\ task = [t \in Tasks |-> IdleTask]
    /\ obs = [g \in Gens |-> NoObs]

\* ------------------------------------------------------- the device

\* The worker thread of a device.status call reads the heater: what it reads is
\* what the call returns if it returns normally, whatever the heater does
\* afterwards.
StatusRead(f) ==
    /\ f \in fetches
    /\ f.seen = None
    /\ fetches' = (fetches \ {f}) \cup {[f EXCEPT !.seen = Some(Status(device))]}
    /\ UNCHANGED << hass_data, entry, device, coord, deb, entity, task, obs >>

\* Somebody switches the heater on or off with its own button.
ManualSwitch ==
    /\ device' = [device EXCEPT !.is_on = ~@]
    /\ UNCHANGED << hass_data, entry, fetches, coord, deb, entity, task, obs >>

\* ------------------------------------------------------- the coordinator

\* _async_update_data as it would be with `return None` in its except clause.
UpdateDataDropsError(outcome, seen) ==
    IF outcome = "DeviceException"
    THEN [raised |-> "none", value |-> None]
    ELSE IF outcome = "ok"
         THEN [raised |-> "none", value |-> seen]
         ELSE [raised |-> outcome, value |-> None]

\* MiHeaterDataUpdateCoordinator._async_update_data, given how device.status
\* ended and what it had read: the data, or the exception raised.
\* Only DeviceException is caught and turned into UpdateFailed.
UpdateData(outcome, seen) ==
    IF outcome = "ok"
    THEN [raised |-> "none", value |-> seen]
    ELSE IF outcome = "DeviceException"
         THEN [raised |-> "UpdateFailed", value |-> None]
         ELSE [raised |-> outcome, value |-> None]

\* The refresh as it would be if a success stored the data and left the error
\* flag of an earlier failure standing.
RefreshedKeepsError(c, r) ==
    IF r.raised = "none"
    THEN [c EXCEPT !.data = r.value]
    ELSE [c EXCEPT !.last_update_success = FALSE, !.last_exception = r.raised]

\* The coordinator's refresh around _async_update_data: self.data is assigned
\* only when the call returns; any exception is kept in last_exception, clears
\* last_update_success and is not re-raised.
Refreshed(c, r) ==
    IF r.raised = "none"
    THEN [c EXCEPT !.data = r.value, !.last_update_success = TRUE]
    ELSE [c EXCEPT !.last_update_success = FALSE, !.last_exception = r.raised]

\* What coordinator.async_request_refresh() throws at its caller for a refresh
\* that ended with r: nothing.
RefreshRaises(r) == "none"

\* The first refresh as it would be with coordinator.async_refresh(), which
\* raises nothing when the refresh fails.
FirstRefreshNeverRaises(c) == "none"

\* coordinator.async_config_entry_first_refresh(): a failed first refresh is
\* raised as ConfigEntryNotReady.
FirstRefreshRaises(c) ==
    IF c.last_update_success THEN "none" ELSE "ConfigEntryNotReady"

\* The debouncer's async_call, reached through async_request_refresh(): during
\* the cooldown the request is remembered for the end of the cooldown; while a
\* refresh is running the request is dropped; otherwise a refresh starts now.
DebouncerCall(d) ==
    IF d.timer
    THEN [deb |-> [d EXCEPT !.execute_at_end = TRUE], start |-> "none"]
    ELSE IF d.locked
         THEN [deb |-> d, start |-> "none"]
         ELSE [deb |-> [d EXCEPT !.locked = TRUE], start |-> "refresh"]

\* The request as it would be with coordinator.async_refresh(), which starts a
\* refresh without asking the debouncer.
RequestRefreshDirect(d) ==
    [deb |-> [d EXCEPT !.locked = TRUE],
     start |-> IF d.locked THEN "direct" ELSE "refresh"]

\* await self.coordinator.async_request_refresh(): the answer says whether a
\* refresh was started; the caller then stays in the await until that refresh
\* has completed, and gets on at once otherwise.
RequestRefresh(d) == DebouncerCall(d)

\* History: the requests counted against the poll in flight; a request that
\* arrives when no poll is in flight starts the count again.
Dropped(d, n) ==
    IF d.locked /\ ~d.timer
    THEN (IF n < MaxDrops THEN n + 1 ELSE n)
    ELSE 0

\* The fetches in flight after a refresh request of generation g answered r.
Started(r, g) ==
    IF r.start = "none" THEN fetches ELSE fetches \cup {Fetch(r.start, g)}

\* ------------------------------------------------------------ setup

\* The setup as it would be with the entry's data stored after the probe only.
StoredAfterProbeOnly(store) == store

\* hass.data.setdefault(DOMAIN, {}); hass.data[DOMAIN][entry.entry_id] = entry.data
StoredAtSetup(store) == store \cup {EntryId}

\* __init__.async_setup_entry up to the await of the probe: the entry's data is
\* stored, a device handle is made and device.status starts in the executor.
\* entry.fetched lists the device.status calls the setup has started so far.
\* No object of an earlier setup is touched.
Setup ==
    /\ entry.gen < MaxSetups
    /\ hass_data' = StoredAtSetup(hass_data)
    /\ entry' = [state |-> "probing", gen |-> entry.gen + 1, probe |-> "none",
                 result |-> "none", unload |-> "none", fetched |-> << "probe" >>]
    /\ fetches' = fetches \cup {Fetch("probe", entry.gen + 1)}
    /\ UNCHANGED << device, coord, deb, entity, task, obs >>

\* The host sets the entry up: for the first time, or again after a setup that
\* ended with ConfigEntryNotReady.
SetupEntry ==
    /\ entry.state \in {"new", "not_ready"}
    /\ Setup

\* The host sets the entry up again after it was unloaded.
ReloadEntry ==
    /\ entry.state = "unloaded"
    /\ Setup

\* The probe as it would be with its exception logged and not re-raised.
ProbeAlwaysForwards(outcome) == "forward"

\* The try/except around the probe: DeviceException and OSError become
\* ConfigEntryNotReady, a normal return goes on to the platforms.
ProbeResult(outcome) ==
    IF outcome \in {"DeviceException", "OSError"}
    THEN "ConfigEntryNotReady"
    ELSE "forward"

\* The probe returns.  On success the climate platform is forwarded to: its
\* async_setup_entry makes the coordinator and starts the first refresh.
ProbeDone(f, outcome) ==
    LET g == entry.gen
    IN /\ entry.state = "probing"
       /\ f \in fetches
       /\ f.kind = "probe" /\ f.gen = g
       /\ outcome = "ok" => f.seen # None
       /\ IF ProbeResult(outcome) = "forward"
          THEN /\ entry' = [entry EXCEPT !.state = "forwarding", !.probe = outcome,
                                         !.fetched = Append(@, "first")]
               /\ coord' = [coord EXCEPT ![g] = NewCoordinator]
               /\ fetches' = (fetches \ {f}) \cup {Fetch("first", g)}
          ELSE /\ entry' = [entry EXCEPT !.state = "not_ready", !.probe = outcome,
                                         !.result = ProbeResult(outcome)]
               /\ coord' = coord
               /\ fetches' = fetches \ {f}
       /\ UNCHANGED << hass_data, device, deb, entity, task, obs >>

\* The entity as it would be added by async_add_entities([...]) without its
\* second argument.
add_without_update == FALSE

\* The second argument of async_add_entities([...], True): update_before_add.
update_before_add == TRUE

\* The first refresh returns.  On success async_add_entities(..., True) updates
\* the new entity before adding it: async_update requests a refresh.  On failure
\* the platform setup ends with ConfigEntryNotReady and no entity; the entry
\* setup itself has passed its probe and returns True.
FirstRefreshDone(f, outcome) ==
    LET g == entry.gen
        r == UpdateData(outcome, f.seen)
        c == Refreshed(coord[g], r)
        q == RequestRefresh(deb[g])
    IN /\ entry.state = "forwarding"
       /\ f \in fetches
       /\ f.kind = "first" /\ f.gen = g
       /\ outcome = "ok" => f.seen # None
       /\ coord' = [coord EXCEPT ![g] = c]
       /\ obs' = [obs EXCEPT ![g].last_good = IF outcome = "ok" THEN f.seen ELSE @]
       /\ IF FirstRefreshRaises(c) = "none" /\ update_before_add
          THEN /\ entity' = [entity EXCEPT ![g] = "updating"]
               /\ deb' = [deb EXCEPT ![g] = q.deb]
               /\ fetches' = Started(q, g) \ {f}
               /\ entry' = [entry EXCEPT !.fetched =
                                IF q.start = "none" THEN @ ELSE Append(@, q.start)]
          ELSE IF FirstRefreshRaises(c) = "none"
          THEN /\ entity' = [entity EXCEPT ![g] = "added"]
               /\ entry' = [entry EXCEPT !.state = "loaded", !.result = "True"]
               /\ deb' = deb
               /\ fetches' = fetches \ {f}
          ELSE /\ entry' = [entry EXCEPT !.state = "loaded", !.result = "True"]
               /\ UNCHANGED << entity, deb >>
               /\ fetches' = fetches \ {f}
       /\ UNCHANGED << hass_data, device, task >>

\* ------------------------------------------------------------ the entity

\* MiHeaterClimate.hvac_mode: read from coordinator.data.
hvac_mode(c) == IF c.data[1].is_on THEN "heat" ELSE "off"

\* MiHeaterClimate.target_temperature
target_temperature(c) == c.data[1].target_temperature

\* The entity is in the platform: added, or added and in an update of the
\* platform's polling.
Present(e) == e \in {"added", "polling"}

\* ------------------------------------------------------------ polling

\* MiHeaterClimate.async_update, called by the platform's polling timer for an
\* added entity (should_poll is left at its default).  The platform starts no
\* update of an entity while an earlier one has not returned; the update
\* returns when the refresh it started has completed, or at once when its
\* request started none.
async_update(g) ==
    LET q == RequestRefresh(deb[g])
    IN /\ entity[g] = "added"
       /\ deb' = [deb EXCEPT ![g] = q.deb]
       /\ fetches' = Started(q, g)
       /\ entity' = [entity EXCEPT ![g] = IF q.start = "none" THEN @ ELSE "polling"]
       /\ obs' = [obs EXCEPT ![g].dropped = Dropped(deb[g], @)]
       /\ UNCHANGED << hass_data, entry, device, coord, task >>

\* The refresh run by the debouncer returns: the coordinator takes the result,
\* the debouncer releases its lock and starts the cooldown, and whoever awaits
\* this refresh gets on: the entity that was being updated before its addition
\* is added and the entry setup returns; the polling update returns; the
\* command returns.
RefreshDone(f, outcome) ==
    LET g == f.gen
        r == UpdateData(outcome, f.seen)
    IN /\ f \in fetches
       /\ f.kind = "refresh"
       /\ outcome = "ok" => f.seen # None
       /\ fetches' = fetches \ {f}
       /\ deb' = [deb EXCEPT ![g].locked = FALSE, ![g].timer = TRUE]
       /\ coord' = [coord EXCEPT ![g] = Refreshed(@, r)]
       /\ obs' = [obs EXCEPT ![g].last_poll = outcome,
                             ![g].last_good = IF outcome = "ok" THEN f.seen ELSE @,
                             ![g].escaped = RefreshRaises(r)]
       /\ IF entity[g] = "updating"
          THEN /\ entity' = [entity EXCEPT ![g] =
                                 IF RefreshRaises(r) = "none" THEN "added" ELSE "aborted"]
               /\ entry' = [entry EXCEPT !.state = "loaded", !.result = "True"]
          ELSE /\ entity' = [entity EXCEPT ![g] = IF @ = "polling" THEN "added" ELSE @]
               /\ entry' = entry
       /\ task' = [t \in Tasks |->
                      IF task[t].pc = "refreshing" /\ task[t].gen = g
                      THEN [task[t] EXCEPT !.pc = "returned"]
                      ELSE task[t]]
       /\ UNCHANGED << hass_data, device >>

\* The debouncer's cooldown ends: a request remembered during the cooldown
\* starts one refresh now.
TimerFire(g) ==
    /\ deb[g].timer
    /\ IF deb[g].execute_at_end /\ ~deb[g].locked
       THEN /\ deb' = [deb EXCEPT ![g] = [locked |-> TRUE, timer |-> FALSE,
                                          execute_at_end |-> FALSE]]
            /\ fetches' = fetches \cup {Fetch("refresh", g)}
       ELSE /\ deb' = [deb EXCEPT ![g].timer = FALSE, ![g].execute_at_end = FALSE]
            /\ fetches' = fetches
    /\ UNCHANGED << hass_data, entry, device, coord, entity, task, obs >>

\* ------------------------------------------------------------ commands

\* MiHeaterClimate.async_set_temperature up to its first await: the device
\* method to call and the value passed, for the given ATTR_TEMPERATURE.
SetTemperatureCall(temperature) ==
    IF temperature # None
    THEN [called |-> "set_target_temperature", sent |-> temperature]
    ELSE [called |-> "none", sent |-> None]

\* async_set_hvac_mode as it would be with every mode other than HEAT switching
\* the heater off.
SetHvacModeCallElseOff(mode) ==
    IF mode = "heat"
    THEN [called |-> "on", sent |-> None]
    ELSE [called |-> "off", sent |-> None]

\* MiHeaterClimate.async_set_hvac_mode up to its first await.
SetHvacModeCall(mode) ==
    IF mode = "heat"
    THEN [called |-> "on", sent |-> None]
    ELSE IF mode = "off"
         THEN [called |-> "off", sent |-> None]
         ELSE [called |-> "none", sent |-> None]

\* The command as it would be with the device call's exception caught and
\* logged.
AfterDeviceCallSwallows(outcome) ==
    [pc |-> "returned", refresh |-> outcome = "ok"]

\* The rest of either command once the device call has ended: an exception of
\* the device call leaves the method at once; after a normal return the refresh
\* is requested.
AfterDeviceCall(outcome) ==
    IF outcome = "ok"
    THEN [pc |-> "returned", refresh |-> TRUE]
    ELSE [pc |-> "raised", refresh |-> FALSE]

\* The heater after a command acted on it.
Applied(d, called, sent) ==
    IF called = "on" THEN [d EXCEPT !.is_on = TRUE]
    ELSE IF called = "off" THEN [d EXCEPT !.is_on = FALSE]
    ELSE IF called = "set_target_temperature"
         THEN [d EXCEPT !.target_temperature = sent[1]]
         ELSE d

\* A service call reaches the entity: the command runs up to its device call,
\* or returns at once when it has nothing to call.
Begin(t, g, kind, arg, c) ==
    /\ task[t].pc = "idle"
    /\ Present(entity[g])
    /\ task' = [task EXCEPT ![t] =
                   [IdleTask EXCEPT !.pc = IF c.called = "none" THEN "returned"
                                          ELSE "calling",
                                    !.kind = kind, !.arg = arg, !.gen = g,
                                    !.called = c.called, !.sent = c.sent]]
    /\ UNCHANGED << hass_data, entry, device, fetches, coord, deb, entity, obs >>

async_set_temperature(t, g, temperature) ==
    Begin(t, g, "temperature", temperature, SetTemperatureCall(temperature))

async_set_hvac_mode(t, g, mode) ==
    Begin(t, g, "hvac_mode", Some(mode), SetHvacModeCall(mode))

\* The heater acts on the command it was sent; the reply is still to come.
DeviceActs(t) ==
    LET k == task[t]
    IN /\ k.pc = "calling"
       /\ ~k.acted
       /\ device' = Applied(device, k.called, k.sent)
       /\ task' = [task EXCEPT ![t].acted = TRUE]
       /\ UNCHANGED << hass_data, entry, fetches, coord, deb, entity, obs >>

\* The command as it would be with the executor job started and not awaited:
\* the method goes on whether or not the heater has acted.
CallNotAwaited(k, outcome) == TRUE

\* await self.hass.async_add_executor_job(...): the method goes on when the
\* device call has ended; a call that returns normally has made the heater act,
\* a call that raises may or may not have.
CallEnded(k, outcome) == outcome = "ok" => k.acted

\* The device call of a command ends and the method runs on to its next await
\* or to its end: after a normal return it requests the refresh, and stays in
\* that await when the request started a refresh.
DeviceCallDone(t, outcome) ==
    LET k == task[t]
        a == AfterDeviceCall(outcome)
        q == RequestRefresh(deb[k.gen])
    IN /\ k.pc = "calling"
       /\ CallEnded(k, outcome)
       /\ task' = [task EXCEPT ![t].pc = IF a.refresh /\ q.start # "none"
                                         THEN "refreshing" ELSE a.pc,
                               ![t].dev_result = outcome,
                               ![t].refreshes = IF a.refresh THEN 1 ELSE 0]
       /\ IF a.refresh
          THEN /\ deb' = [deb EXCEPT ![k.gen] = q.deb]
               /\ fetches' = Started(q, k.gen)
               /\ obs' = [obs EXCEPT ![k.gen].dropped = Dropped(deb[k.gen], @)]
          ELSE UNCHANGED << deb, fetches, obs >>
       /\ UNCHANGED << hass_data, entry, device, coord, entity >>

\* The service call is over; its slot is free again.
TaskDone(t) ==
    /\ task[t].pc \in {"returned", "raised"}
    /\ task' = [task EXCEPT ![t] = IdleTask]
    /\ UNCHANGED << hass_data, entry, device, fetches, coord, deb, entity, obs >>

\* ------------------------------------------------------------ unload

\* The unload as it would be with the pop outside `if unloaded:`.
StoreAfterUnloadAlways(store, unloaded) == store \ {EntryId}

\* if unloaded: hass.data[DOMAIN].pop(entry.entry_id, None)
StoreAfterUnload(store, unloaded) ==
    IF unloaded THEN store \ {EntryId} ELSE store

\* __init__.async_unload_entry: the platforms are unloaded (the entity is
\* removed, which ends its polling); only then is the entry's data dropped.
\* Nothing else is stopped.
async_unload_entry(unloaded) ==
    /\ entry.state = "loaded"
    /\ entry' = [entry EXCEPT !.state = IF unloaded THEN "unloaded" ELSE @,
                              !.unload = IF unloaded THEN "True" ELSE "False"]
    /\ hass_data' = StoreAfterUnload(hass_data, unloaded)
    /\ entity' = [entity EXCEPT ![entry.gen] =
                      IF unloaded /\ Present(@) THEN "removed" ELSE @]
    /\ UNCHANGED << device, fetches, coord, deb, task, obs >>

\* ------------------------------------------------------------ specifications

\* The steps both specifications take.
Common ==
    \/ SetupEntry
    \/ \E f \in fetches, o \in StatusOutcomes : ProbeDone(f, o)
    \/ \E f \in fetches, o \in StatusOutcomes : FirstRefreshDone(f, o)
    \/ \E f \in fetches : StatusRead(f)
    \/ \E g \in Gens : async_update(g)
    \/ \E f \in fetches, o \in StatusOutcomes : RefreshDone(f, o)
    \/ \E g \in Gens : TimerFire(g)
    \/ \E u \in BOOLEAN : async_unload_entry(u)
    \/ ManualSwitch

Next ==
    \/ Common
    \/ \E t \in Tasks, g \in Gens, v \in {None} \cup {Some(x) : x \in TempInputs} :
           async_set_temperature(t, g, v)
    \/ \E t \in Tasks, g \in Gens, m \in HvacInputs : async_set_hvac_mode(t, g, m)
    \/ \E t \in Tasks : DeviceActs(t)
    \/ \E t \in Tasks, o \in CommandOutcomes : DeviceCallDone(t, o)
    \/ \E t \in Tasks : TaskDone(t)

Spec == Init /\ [][Next]_vars

NextReload ==
    \/ Common
    \/ ReloadEntry

SpecReload == Init /\ [][NextReload]_vars

\* ------------------------------------------------------------ properties

Finished(k) == k.pc \in {"returned", "raised"}
InFlight(g) == {f \in fetches : f.gen = g}
Failed(o) == o \in {"DeviceException", "OSError"}

\* C1: every target temperature outside [16,32] given to async_set_temperature
\* is rejected with a validation error before anything is sent: no device call
\* is made for it.
C1_OutOfRangeRejected ==
    \A t \in Tasks :
        ( /\ task[t].kind = "temperature"
          /\ task[t].arg # None
          /\ task[t].arg[1] \notin min_temp .. max_temp )
        => task[t].called = "none" /\ task[t].pc = "ValidationError"

\* C2: a command that has called the device has requested a refresh when it
\* ends, whether the device call returned or raised.
C2_RefreshAfterFailure ==
    \A t \in Tasks :
        Finished(task[t]) /\ task[t].called # "none" => task[t].refreshes = 1

\* C3: a failed setup probe ends the setup with ConfigEntryNotReady, with no
\* platform forwarded to, no coordinator and no poll started; the setup is past
\* its probe (forwarding, or returned True) only after a successful probe.
C3_ProbeFailureNotReady ==
    LET g == entry.gen
    IN /\ Failed(entry.probe) =>
              /\ entry.state = "not_ready"
              /\ entry.result = "ConfigEntryNotReady"
              /\ ~coord[g].exists
              /\ entity[g] = "none"
              /\ InFlight(g) = {}
              /\ deb[g] = IdleDebouncer
       /\ entry.state \in {"forwarding", "loaded"} => entry.probe = "ok"
       /\ entry.result = "True" => entry.probe = "ok" /\ coord[g].exists

C3_Witness ==
    /\ entry.state = "not_ready"
    /\ entry.probe = "OSError"
    /\ entry.gen = 2

\* C4: once a poll has succeeded, the coordinator's data is the snapshot of the
\* most recent successful poll whatever polls failed since, and a failed last
\* poll shows as the error flag (last_update_success false, last_exception set).
C4_StaleButAvailable ==
    \A g \in Gens :
        /\ obs[g].last_good # None =>
               /\ coord[g].data = obs[g].last_good
               /\ hvac_mode(coord[g]) =
                      (IF obs[g].last_good[1].is_on THEN "heat" ELSE "off")
               /\ target_temperature(coord[g]) =
                      obs[g].last_good[1].target_temperature
        /\ Failed(obs[g].last_poll) =>
               /\ ~coord[g].last_update_success
               /\ coord[g].last_exception # "none"

C4_Witness ==
    \E g \in Gens :
        /\ obs[g].last_poll = "DeviceException"
        /\ coord[g].data # None
        /\ coord[g].data = obs[g].last_good
        /\ coord[g].data[1] # Status(device)
        /\ ~coord[g].last_update_success

\* C5: at most one status fetch is in flight at any time.
C5_SingleFlight == Cardinality(fetches) <= 1

\* C6 as stated: once a poll during which two refresh requests arrived has
\* completed, one more fetch is due for them (remembered for the end of the
\* cooldown), unless it is running already.
C6_OneTrailingFetch ==
    \A g \in Gens :
        obs[g].dropped >= 2 /\ ~deb[g].locked => deb[g].execute_at_end

\* C6 amended: refresh requests that arrive while a poll is in flight start no
\* fetch of their own: while that poll runs it is the only fetch, and once it
\* has completed no fetch is running or due because of them.
C6_Coalesced ==
    \A g \in Gens :
        obs[g].dropped >= 1 =>
            IF deb[g].locked
            THEN /\ Cardinality(InFlight(g)) = 1
                 /\ \A f \in InFlight(g) : f.kind = "refresh"
            ELSE InFlight(g) = {} /\ ~deb[g].execute_at_end

C6_Witness ==
    \E g \in Gens :
        /\ obs[g].dropped = 2
        /\ ~deb[g].locked
        /\ ~deb[g].timer
        /\ Present(entity[g])

\* C7: a finished async_set_temperature with a value in [16,32] has made the
\* one device call with exactly that value and has requested one refresh.
C7_ForwardAndRefresh ==
    \A t \in Tasks :
        ( /\ task[t].kind = "temperature"
          /\ task[t].arg # None
          /\ task[t].arg[1] \in min_temp .. max_temp
          /\ Finished(task[t]) )
        => /\ task[t].called = "set_target_temperature"
           /\ task[t].sent = task[t].arg
           /\ task[t].refreshes = 1

\* C8: once the entry is unloaded no status fetch is in flight any more: the
\* poll that was in flight has been cancelled and no other has started.
C8_NothingAfterUnload == entry.state = "unloaded" => fetches = {}

\* C9: a coordinator's data changes only in the step in which one of its
\* polls completes, never in a step of a command's own code (its call, the
\* heater acting, the end of its device call); and every command that was
\* executed, its device call having ended with a return or with an
\* exception, has requested a refresh in the step in which that call ended.
C9_CacheWrittenByPollsOnly ==
    [][ /\ \A g \in Gens :
               coord'[g].data # coord[g].data =>
                   \E f \in fetches \ fetches' :
                       f.gen = g /\ f.kind \in {"first", "refresh"}
        /\ \A t \in Tasks :
               /\ task[t].pc \in {"idle", "calling"} /\ task'[t] # task[t] =>
                      coord' = coord
               /\ task[t].pc = "calling" /\ task'[t].pc # "calling" =>
                      task'[t].refreshes = 1
      ]_vars

\* C10: a failed steady-state poll is kept as the coordinator's last exception
\* (UpdateFailed for a DeviceException) and is not raised to whoever requested
\* the refresh, so the entity is added all the same; a failed device call of a
\* command is raised to the command's caller.
C10_PollErrorsAbsorbed ==
    /\ \A g \in Gens :
           /\ obs[g].last_poll = "DeviceException" =>
                  coord[g].last_exception = "UpdateFailed"
           /\ obs[g].last_poll = "OSError" => coord[g].last_exception = "OSError"
           /\ Failed(obs[g].last_poll) => ~coord[g].last_update_success
           /\ obs[g].escaped = "none"
           /\ entity[g] # "aborted"
    /\ \A t \in Tasks :
           Finished(task[t]) /\ task[t].called # "none" =>
               (task[t].pc = "raised" <=> task[t].dev_result = "DeviceException")

C10_Witness ==
    \E g \in Gens, t \in Tasks :
        /\ obs[g].last_poll = "OSError"
        /\ entity[g] = "added"
        /\ coord[g].last_exception = "OSError"
        /\ task[t].pc = "raised"
        /\ task[t].gen = g

\* A command that carries nothing to execute: no temperature value, or a mode
\* other than HEAT and OFF.
NothingToExecute(k) ==
    \/ k.kind = "temperature" /\ k.arg = None
    \/ k.kind = "hvac_mode" /\ k.arg[1] \notin {"heat", "off"}

\* C15: a command with nothing to execute ends in the step in which it is
\* called, with no device call made and no refresh requested, and that step
\* leaves the heater, the fetches in flight, the debouncer and the coordinator
\* (the cached status) as they were.
C15_NothingToExecute ==
    [][ \A t \in Tasks :
            task'[t] # task[t] /\ NothingToExecute(task'[t]) =>
                /\ task[t].pc = "idle"
                /\ task'[t].pc = "returned"
                /\ task'[t].called = "none"
                /\ task'[t].dev_result = "none"
                /\ task'[t].refreshes = 0
                /\ device' = device
                /\ fetches' = fetches
                /\ deb' = deb
                /\ coord' = coord
      ]_vars

C15_Witness ==
    \E t \in Tasks :
        /\ task[t].kind = "hvac_mode"
        /\ task[t].arg = Some("cool")
        /\ task[t].pc = "returned"
        /\ task[t].called = "none"
        /\ device.is_on

\* C16: an entity exists (being updated before its addition, or added) only
\* after its coordinator's first refresh has succeeded, and as long as it exists
\* the coordinator's data is a snapshot, never None, so that hvac_mode and
\* target_temperature have a value to read, whatever polls have failed since.
C16_DataNeverNone ==
    \A g \in Gens :
        /\ entity[g] # "none" => coord[g].exists
        /\ entity[g] \in {"updating", "added", "polling"} =>
               /\ obs[g].last_good # None
               /\ coord[g].data # None
               /\ hvac_mode(coord[g]) \in {"heat", "off"}
               /\ target_temperature(coord[g]) \in Int

C16_Witness ==
    \E g \in Gens :
        /\ Present(entity[g])
        /\ obs[g].last_poll = "OSError"
        /\ ~coord[g].last_update_success
        /\ coord[g].data # None
        /\ g = 2

\* C17: async_unload_entry drops the entry's stored data exactly when the
\* platform unload succeeded and returns the platform unload's result; after a
\* failed platform unload the store is as it was; nothing but a successful
\* unload removes the entry's data, and no step touches another entry's data.
C17_UnloadStore ==
    [][ /\ (OtherEntryId \in hass_data') <=> (OtherEntryId \in hass_data)
        /\ ( entry'.unload # entry.unload /\ entry'.unload = "True" ) =>
               /\ entry.state = "loaded"
               /\ entry'.state = "unloaded"
               /\ hass_data' = hass_data \ {EntryId}
        /\ ( entry'.unload # entry.unload /\ entry'.unload = "False" ) =>
               /\ entry.state = "loaded"
               /\ entry'.state = "loaded"
               /\ hass_data' = hass_data
               /\ EntryId \in hass_data'
        /\ ( EntryId \in hass_data /\ EntryId \notin hass_data' ) =>
               entry'.unload = "True" /\ entry.unload # "True"
      ]_vars

C17_Witness ==
    /\ entry.state = "unloaded"
    /\ entry.unload = "True"
    /\ hass_data = {OtherEntryId}

\* C18: the entry's data is in the store from the first step of its setup, before
\* the probe has returned, and stays there when the setup ends with
\* ConfigEntryNotReady: it is stored exactly when a setup of the entry has been
\* started and the entry has not been unloaded successfully since.
C18_StoredBeforeProbe ==
    /\ entry.state \in {"probing", "forwarding", "loaded", "not_ready"} =>
           EntryId \in hass_data
    /\ entry.state \in {"new", "unloaded"} => EntryId \notin hass_data

C18_Witness ==
    /\ entry.state = "not_ready"
    /\ entry.result = "ConfigEntryNotReady"
    /\ entry.probe = "DeviceException"
    /\ hass_data = {EntryId, OtherEntryId}

\* The error a reader of the coordinator sees: the exception of the last
\* refresh if that refresh failed, none otherwise.
lastError(c) == IF c.last_update_success THEN "none" ELSE c.last_exception

\* The last completed fetch of generation g's coordinator succeeded (a poll, or
\* the first refresh with no poll completed since).
LastSucceeded(g) ==
    \/ obs[g].last_poll = "ok"
    \/ obs[g].last_poll = "none" /\ obs[g].last_good # None

\* C13: a coordinator starts with no data and no error; until a fetch has
\* succeeded it has no data; and when its last fetch succeeded, its data is that
\* fetch's snapshot as a whole, every field the entity reads comes from that one
\* snapshot, and no error shows.
C13_SuccessReplaces ==
    /\ NewCoordinator.data = None /\ lastError(NewCoordinator) = "none"
    /\ \A g \in Gens :
           /\ obs[g].last_good = None => coord[g].data = None
           /\ coord[g].data # None => coord[g].data = obs[g].last_good
           /\ LastSucceeded(g) =>
                  /\ coord[g].data = obs[g].last_good
                  /\ hvac_mode(coord[g]) =
                         (IF obs[g].last_good[1].is_on THEN "heat" ELSE "off")
                  /\ target_temperature(coord[g]) =
                         obs[g].last_good[1].target_temperature
                  /\ lastError(coord[g]) = "none"

C13_Witness ==
    \E g \in Gens :
        /\ obs[g].last_poll = "ok"
        /\ coord[g].last_exception = "UpdateFailed"
        /\ lastError(coord[g]) = "none"
        /\ coord[g].data = Some(Status(device))
        /\ device.is_on
        /\ device.target_temperature = max_temp + 1

\* C12: a command requests no refresh when it starts its device call or while
\* that call is in flight; in the step in which it requests its refresh the
\* device call has returned and the heater has acted on the write; a status
\* fetch started by that request is the refresh of the command's own
\* coordinator, starts in that step and has not read the heater yet; and a
\* coordinator's data changes only in the step in which one of its fetches
\* completes, to what that fetch has read.
C12_WriteBeforeRefresh ==
    [][ /\ \A t \in Tasks :
               /\ task[t].pc = "idle" /\ task'[t].pc = "calling" =>
                      fetches' = fetches /\ deb' = deb
               /\ task'[t].refreshes = 1 /\ task[t].refreshes = 0 =>
                      /\ task[t].pc = "calling"
                      /\ task[t].acted
                      /\ task'[t].dev_result = "ok"
                      /\ \A f \in fetches' \ fetches :
                             /\ f = Fetch("refresh", task[t].gen)
                             /\ task'[t].pc = "refreshing"
               /\ ( /\ task[t].pc = "calling"
                    /\ task'[t] # task[t]
                    /\ task'[t].refreshes = 0 ) =>
                      fetches' = fetches /\ deb' = deb
        /\ \A g \in Gens :
               coord'[g].data # coord[g].data =>
                   \E f \in fetches \ fetches' :
                       /\ f.gen = g
                       /\ f.seen # None
                       /\ coord'[g].data = f.seen
      ]_vars

C12_Witness ==
    \E t \in Tasks :
        LET g == task[t].gen
        IN /\ task[t].pc = "refreshing"
           /\ task[t].called = "set_target_temperature"
           /\ task[t].refreshes = 1
           /\ Fetch("refresh", g) \in fetches
           /\ device.target_temperature = max_temp + 1
           /\ coord[g].data # None
           /\ coord[g].data[1].target_temperature = min_temp

\* C14 as stated: when the entity has become available, the setup has made one
\* status fetch.
C14_OneFetch ==
    entry.state # "new" /\ Present(entity[entry.gen]) => Len(entry.fetched) = 1

\* C14 amended: every setup starts exactly one probe, as its first status fetch;
\* when the entity has become available the setup has made three status
\* fetches, the probe, the coordinator's first refresh and the refresh of the
\* entity's update before its addition, in this order and never two at a time;
\* a setup whose first refresh failed has made two and has no entity.
C14_ThreeFetches ==
    LET g == entry.gen
        n == Len(entry.fetched)
    IN /\ entry.state # "new" =>
              /\ entry.fetched[1] = "probe"
              /\ \A i \in 2 .. n : entry.fetched[i] # "probe"
       /\ entry.state \in {"probing", "not_ready"} => n = 1
       /\ entry.state = "forwarding" /\ entity[g] = "none" => n = 2
       /\ entry.state \in {"probing", "forwarding"} =>
              Cardinality(InFlight(g)) = 1
       /\ entry.state # "new" /\ entity[g] = "updating" =>
              entry.fetched = << "probe", "first", "refresh" >>
       /\ entry.state # "new" /\ Present(entity[g]) =>
              entry.fetched = << "probe", "first", "refresh" >>
       /\ entry.state = "loaded" /\ entity[g] = "none" =>
              entry.fetched = << "probe", "first" >>

C14_Witness ==
    /\ entry.gen = 2
    /\ entry.state = "loaded"
    /\ entity[2] = "added"
    /\ entry.fetched = << "probe", "first", "refresh" >>

====
